---- MODULE Spec2Model ----
(***************************************************************************)
(* Variable-length integer codec of src/protocol/varint.rs.                *)
(*                                                                         *)
(* A u64 is modelled as its eight bytes, most significant first, because   *)
(* the values the codec handles (up to 2^64 - 1) exceed the integers TLC   *)
(* can compute with.  All u64 arithmetic of the source (|, &, <<, range    *)
(* matching) is defined on that representation and truncates at 64 bits.   *)
(***************************************************************************)
EXTENDS Integers, Sequences, FiniteSets, TLC

VARIABLES pc, dst, src, varint, last, sent, recv, orig, th

vars == <<pc, dst, src, varint, last, sent, recv, orig, th>>

(***************************************************************************)
(* Bit and byte arithmetic                                                 *)
(***************************************************************************)
Byte == 0..255

RECURSIVE BitAnd(_, _)
BitAnd(a, b) ==
    IF a = 0 \/ b = 0 THEN 0
    ELSE (a % 2) * (b % 2) + 2 * BitAnd(a \div 2, b \div 2)

RECURSIVE BitOr(_, _)
BitOr(a, b) ==
    IF a = 0 THEN b
    ELSE IF b = 0 THEN a
    ELSE (IF a % 2 = 1 \/ b % 2 = 1 THEN 1 ELSE 0) + 2 * BitOr(a \div 2, b \div 2)

\* `x as u64` for a u8 x
AsU64(x) == [i \in 1..8 |-> IF i = 8 THEN x ELSE 0]

ByteAt(a, i) == IF i \in 1..8 THEN a[i] ELSE 0

\* a | b on u64
Or64(a, b) == [i \in 1..8 |-> BitOr(a[i], b[i])]

\* a & b on u64
And64(a, b) == [i \in 1..8 |-> BitAnd(a[i], b[i])]

\* a << k on u64 (bits shifted past bit 63 are dropped)
Shl64(a, k) ==
    LET q == k \div 8
        r == k % 8
    IN  [i \in 1..8 |->
            ((ByteAt(a, i + q) * (2 ^ r)) % 256)
            + (ByteAt(a, i + q + 1) \div (2 ^ (8 - r)))]

Zero64 == [i \in 1..8 |-> 0]
Ones64 == [i \in 1..8 |-> 255]

\* a <= b on u64
Leq64(a, b) ==
    \/ a = b
    \/ \E i \in 1..8 : a[i] < b[i] /\ \A j \in 1..(i - 1) : a[j] = b[j]

(***************************************************************************)
(* Constants of the codec                                                  *)
(***************************************************************************)
MAX_INT_1 == <<0, 0, 0, 0, 0, 0, 0, 63>>
MAX_INT_2 == <<0, 0, 0, 0, 0, 0, 63, 255>>
MAX_INT_4 == <<0, 0, 0, 0, 63, 255, 255, 255>>
MAX_INT_8 == <<63, 255, 255, 255, 255, 255, 255, 255>>

INT_1_FLAG == 0
INT_2_FLAG == 1
INT_4_FLAG == 2
INT_8_FLAG == 3

(***************************************************************************)
(* Buffers: the BufMut sink is a Vec<u8>, the Buf source a cursor.         *)
(***************************************************************************)
Cursor(bytes, at) == [buf |-> bytes, pos |-> at]

remaining(s) == Len(s.buf) - s.pos

advance(s, cnt) == [s EXCEPT !.pos = @ + cnt]

\* byteorder's pack_size: bytes needed to hold n
pack_size(n) ==
    IF \A i \in 1..8 : n[i] = 0 THEN 1
    ELSE 9 - (CHOOSE i \in 1..8 : n[i] # 0 /\ \A j \in 1..(i - 1) : n[j] = 0)

\* put_uint_be that writes at the start of the sink instead of appending
put_uint_be_clobber(d, n, nbytes) ==
    IF pack_size(n) <= nbytes
    THEN [ok |-> TRUE, buf |-> SubSeq(n, 9 - nbytes, 8)]
    ELSE [ok |-> FALSE, buf |-> d]

\* BufMut::put_uint_be(n, nbytes): the low nbytes bytes of n, big-endian;
\* panics when n does not fit in nbytes bytes.
put_uint_be(d, n, nbytes) ==
    IF pack_size(n) <= nbytes
    THEN [ok |-> TRUE, buf |-> d \o SubSeq(n, 9 - nbytes, 8)]
    ELSE [ok |-> FALSE, buf |-> d]

\* get_uint_be reading the bytes in little-endian order
get_uint_le(s, nbytes) ==
    [i \in 1..8 |-> IF i > 8 - nbytes THEN s.buf[s.pos + 9 - i] ELSE 0]

\* Buf::get_uint_be(nbytes) on a source holding at least nbytes bytes
get_uint_be(s, nbytes) ==
    [i \in 1..8 |-> IF i > 8 - nbytes THEN s.buf[s.pos + i - (8 - nbytes)] ELSE 0]

(***************************************************************************)
(* VarInt::encode                                                          *)
(***************************************************************************)
\* an arm that leaves the width tag out
EncodeArm_notag(v, flag, shift, nbytes) ==
    [ok |-> TRUE, word |-> v, nbytes |-> nbytes]

\* one arm of the match: the word handed to put_uint_be and its width
EncodeArm(v, flag, shift, nbytes) ==
    [ok |-> TRUE, word |-> Or64(v, Shl64(AsU64(flag), shift)), nbytes |-> nbytes]

\* a <= b /\ a # b
Lt64(a, b) == Leq64(a, b) /\ a # b

\* the match with exclusive upper ends (0..MAX_INT_n)
EncodeMatch_exclusive(v) ==
    IF Lt64(v, MAX_INT_1) THEN EncodeArm(v, INT_1_FLAG, 6, 1)
    ELSE IF Lt64(v, MAX_INT_2) THEN EncodeArm(v, INT_2_FLAG, 14, 2)
    ELSE IF Lt64(v, MAX_INT_4) THEN EncodeArm(v, INT_4_FLAG, 30, 4)
    ELSE IF Lt64(v, MAX_INT_8) THEN EncodeArm(v, INT_8_FLAG, 62, 8)
    ELSE [ok |-> FALSE, word |-> v, nbytes |-> 0]

\* match self.0 { 0..=MAX_INT_1 => .., .., v => panic!() }
EncodeMatch(v) ==
    IF Leq64(v, MAX_INT_1) THEN EncodeArm(v, INT_1_FLAG, 6, 1)
    ELSE IF Leq64(v, MAX_INT_2) THEN EncodeArm(v, INT_2_FLAG, 14, 2)
    ELSE IF Leq64(v, MAX_INT_4) THEN EncodeArm(v, INT_4_FLAG, 30, 4)
    ELSE IF Leq64(v, MAX_INT_8) THEN EncodeArm(v, INT_8_FLAG, 62, 8)
    ELSE [ok |-> FALSE, word |-> v, nbytes |-> 0]

encode(v, d) ==
    LET m == EncodeMatch(v)
        p == put_uint_be(d, m.word, m.nbytes)
    IN  IF m.ok /\ p.ok
        THEN [res |-> "Ok", n |-> m.nbytes, dst |-> p.buf]
        ELSE [res |-> "Panic", n |-> 0, dst |-> d]

(***************************************************************************)
(* VarInt::decode                                                          *)
(***************************************************************************)
\* an arm that reads the rest bytes without consuming them
DecodeArm_peek(first, s, shift, rest, mask, nbytes) ==
    IF remaining(s) < rest
    THEN [ok |-> FALSE, v |-> Zero64, n |-> 0, src |-> s]
    ELSE [ok |-> TRUE,
          v |-> And64(Or64(Shl64(AsU64(first), shift), get_uint_be(s, rest)), mask),
          n |-> nbytes,
          src |-> s]

\* an arm that does not mask the tag off
DecodeArm_nomask(first, s, shift, rest, mask, nbytes) ==
    IF remaining(s) < rest
    THEN [ok |-> FALSE, v |-> Zero64, n |-> 0, src |-> s]
    ELSE [ok |-> TRUE,
          v |-> Or64(Shl64(AsU64(first), shift), get_uint_be(s, rest)),
          n |-> nbytes,
          src |-> advance(s, rest)]

\* one arm of the match: read the rest bytes, merge them with first, mask
DecodeArm(first, s, shift, rest, mask, nbytes) ==
    IF remaining(s) < rest
    THEN [ok |-> FALSE, v |-> Zero64, n |-> 0, src |-> s]
    ELSE [ok |-> TRUE,
          v |-> And64(Or64(Shl64(AsU64(first), shift), get_uint_be(s, rest)), mask),
          n |-> nbytes,
          src |-> advance(s, rest)]

\* the match with the four-byte arm shifting first by 16 instead of 24
DecodeMatch_shift16(first, s) ==
    LET tag == first \div 64
    IN  IF tag = INT_1_FLAG
        THEN [ok |-> TRUE, v |-> And64(AsU64(first), MAX_INT_1), n |-> 1, src |-> s]
        ELSE IF tag = INT_2_FLAG THEN DecodeArm(first, s, 8, 1, MAX_INT_2, 2)
        ELSE IF tag = INT_4_FLAG THEN DecodeArm(first, s, 16, 3, MAX_INT_4, 4)
        ELSE IF tag = INT_8_FLAG THEN DecodeArm(first, s, 56, 7, MAX_INT_8, 8)
        ELSE [ok |-> FALSE, v |-> Zero64, n |-> 0, src |-> s]

\* let (v, n) = match first >> 6 { .. }, s the source after get_u8
DecodeMatch(first, s) ==
    LET tag == first \div 64
    IN  IF tag = INT_1_FLAG
        THEN [ok |-> TRUE, v |-> And64(AsU64(first), MAX_INT_1), n |-> 1, src |-> s]
        ELSE IF tag = INT_2_FLAG THEN DecodeArm(first, s, 8, 1, MAX_INT_2, 2)
        ELSE IF tag = INT_4_FLAG THEN DecodeArm(first, s, 24, 3, MAX_INT_4, 4)
        ELSE IF tag = INT_8_FLAG THEN DecodeArm(first, s, 56, 7, MAX_INT_8, 8)
        ELSE [ok |-> FALSE, v |-> Zero64, n |-> 0, src |-> s]

\* self.0 |= v
Assign_or(old, v) == Or64(old, v)

\* self.0 = v
Assign(old, v) == v

decode(s, old) ==
    IF remaining(s) < 1
    THEN [res |-> "Panic", n |-> 0, v |-> old, src |-> s]
    ELSE LET m == DecodeMatch(s.buf[s.pos + 1], advance(s, 1))
         IN  IF m.ok
             THEN [res |-> "Ok", n |-> m.n, v |-> Assign(old, m.v), src |-> m.src]
             ELSE [res |-> "Panic", n |-> 0, v |-> old, src |-> m.src]

(***************************************************************************)
(* Inputs of the harness                                                   *)
(***************************************************************************)
LeadBytes == {0, 1, 3, 63, 64, 65, 127, 128, 129, 191, 192, 193, 255}
FillBytes == {0, 1, 255}

\* u64 values: a leading byte at any of the eight positions, a fill below it
Values ==
    { [i \in 1..8 |-> IF i < p THEN 0 ELSE IF i = p THEN l ELSE f] :
        p \in 1..8, l \in LeadBytes, f \in FillBytes }

\* bytes a sink may already hold when encode is called
PreSinks == { <<>>, <<170>>, <<192, 1, 64>> }

\* the u64 of a number below 2^31
FromInt(k) == [i \in 1..8 |-> IF i <= 4 THEN 0 ELSE (k \div (256 ^ (8 - i))) % 256]

\* values a VarInt may hold before decode overwrites it
Olds == { Zero64, Ones64 }

NoCall ==
    [op |-> "none", res |-> "Ok", n |-> 0, arg |-> Zero64,
     dst0 |-> <<>>, src0 |-> Cursor(<<>>, 0), old |-> Zero64]

NoOrig == [set |-> FALSE, buf |-> <<>>, pos |-> 0, v |-> Zero64, n |-> 0]

(***************************************************************************)
(* Operations                                                              *)
(***************************************************************************)
\* VarInt(v).encode(&mut dst)
Encode(v) ==
    /\ pc = "encode"
    /\ LET r == encode(v, dst)
       IN  /\ dst' = r.dst
           /\ last' = [op |-> "encode", res |-> r.res, n |-> r.n, arg |-> v,
                       dst0 |-> dst, src0 |-> src, old |-> varint]
           /\ sent' = IF r.res = "Ok" THEN Append(sent, [v |-> v, n |-> r.n]) ELSE sent
           /\ pc' = IF r.res = "Ok" THEN "encode" ELSE "aborted"
    /\ UNCHANGED <<src, varint, recv, orig, th>>

\* dst.into_buf(): a cursor over the sink, placed where the encodes began
IntoBuf ==
    /\ pc = "encode"
    /\ src' = Cursor(dst, src.pos)
    /\ pc' = "decode"
    /\ UNCHANGED <<dst, varint, last, sent, recv, orig, th>>

\* varint.decode(&mut src)
Decode ==
    /\ pc = "decode"
    /\ LET r == decode(src, varint)
       IN  /\ src' = r.src
           /\ varint' = r.v
           /\ last' = [op |-> "decode", res |-> r.res, n |-> r.n, arg |-> Zero64,
                       dst0 |-> dst, src0 |-> src, old |-> varint]
           /\ recv' = IF r.res = "Ok" THEN Append(recv, [v |-> r.v, n |-> r.n]) ELSE recv
           /\ pc' = IF r.res = "Ok" THEN "decode" ELSE "aborted"
    /\ UNCHANGED <<dst, sent, orig, th>>

\* the decoded VarInt is encoded again, into a new empty sink
ReEncode ==
    /\ pc = "decode"
    /\ last.op = "decode"
    /\ ~orig.set
    /\ LET r == encode(varint, <<>>)
       IN  /\ dst' = r.dst
           /\ last' = [op |-> "encode", res |-> r.res, n |-> r.n, arg |-> varint,
                       dst0 |-> <<>>, src0 |-> src, old |-> varint]
           /\ sent' = IF r.res = "Ok" THEN <<[v |-> varint, n |-> r.n]>> ELSE <<>>
           /\ pc' = IF r.res = "Ok" THEN "encode" ELSE "aborted"
    /\ orig' = [set |-> TRUE, buf |-> src.buf, pos |-> last.src0.pos,
                v |-> varint, n |-> last.n]
    /\ src' = Cursor(<<>>, 0)
    /\ recv' = <<>>
    /\ UNCHANGED <<varint, th>>

(***************************************************************************)
(* Spec: one value encoded into a sink, then read back                     *)
(***************************************************************************)
Init ==
    /\ pc = "encode"
    /\ dst \in PreSinks
    /\ src = Cursor(dst, Len(dst))
    /\ varint \in Olds
    /\ last = NoCall
    /\ sent = <<>>
    /\ recv = <<>>
    /\ orig = NoOrig
    /\ th = <<>>

EncodeOne == \E v \in Values : sent = <<>> /\ Encode(v)

Next == EncodeOne \/ IntoBuf \/ Decode

Spec == Init /\ [][Next]_vars

(***************************************************************************)
(* SpecStream: several values encoded one after another into one sink,     *)
(* then read back one by one                                               *)
(***************************************************************************)
MaxStream == 3

StreamValues ==
    { Zero64, MAX_INT_1, MAX_INT_2, MAX_INT_4, MAX_INT_8,
      <<0, 0, 0, 0, 0, 0, 0, 64>>, <<0, 0, 0, 0, 0, 0, 64, 0>>,
      <<0, 0, 0, 0, 64, 0, 0, 0>>, <<1, 1, 1, 1, 1, 1, 1, 1>> }

EncodeNext == \E v \in StreamValues : Len(sent) < MaxStream /\ Encode(v)

NextStream == EncodeNext \/ IntoBuf \/ Decode

SpecStream == Init /\ [][NextStream]_vars

(***************************************************************************)
(* SpecRaw: decode of bytes that need not come from encode, and encode of  *)
(* what was decoded                                                        *)
(***************************************************************************)
MaxRaw == 8

Vectors == { <<64, 3>>, <<3>>, <<65, 1>> }

\* byte strings of length k: j bytes a, then bytes b
Tails(k) ==
    { [i \in 1..k |-> IF i <= j THEN a ELSE b] :
        j \in 0..k, a \in FillBytes, b \in FillBytes }

RawInputs ==
    Vectors \cup {<<>>} \cup
    { <<l>> \o t : l \in LeadBytes, t \in UNION { Tails(k) : k \in 0..(MaxRaw - 1) } }

InitRaw ==
    /\ pc = "decode"
    /\ dst = <<>>
    /\ \E b \in RawInputs : src = Cursor(b, 0)
    /\ varint = Zero64
    /\ last = NoCall
    /\ sent = <<>>
    /\ recv = <<>>
    /\ orig = NoOrig
    /\ th = <<>>

NextRaw == Decode \/ ReEncode \/ IntoBuf

SpecRaw == InitRaw /\ [][NextRaw]_vars

(***************************************************************************)
(* SpecThreads: two threads, each making one call on buffers of its own;   *)
(* the buffer operations of the two calls interleave                       *)
(***************************************************************************)
Threads == {1, 2}

ThreadValues == { FromInt(3), FromInt(257), MAX_INT_4, MAX_INT_8, Ones64 }

ThreadSinks == { <<>>, <<170>> }

ThreadSources ==
    { Cursor(<<>>, 0), Cursor(<<3>>, 0), Cursor(<<65, 1, 255>>, 0),
      Cursor(<<170, 129, 1, 1, 0>>, 1), Cursor(<<129, 1>>, 0),
      Cursor(<<193, 1, 1, 1, 1, 1, 1, 1, 7>>, 0) }

Calls ==
    { [op |-> "encode", v |-> v, dst |-> d, src |-> Cursor(<<>>, 0)] :
        v \in ThreadValues, d \in ThreadSinks }
    \cup
    { [op |-> "decode", v |-> o, dst |-> <<>>, src |-> s] :
        o \in Olds, s \in ThreadSources }

\* a thread about to make the call c
Thread(c) ==
    [op |-> c.op, pc |-> "call", v |-> c.v, dst |-> c.dst, src |-> c.src,
     first |-> 0, tv |-> Zero64, tn |-> 0, res |-> "none", n |-> 0,
     in |-> c, mixed |-> FALSE]

Busy(u) == th[u].pc \notin {"call", "done", "panicked"}

\* thread t moves to state new; the other thread and its buffers stay
Step(t, new) ==
    /\ th' = [th EXCEPT ![t] =
                [new EXCEPT !.mixed = @ \/ \E u \in Threads \ {t} : Busy(u)]]
    /\ UNCHANGED <<pc, dst, src, varint, last, sent, recv, orig>>

Panicked(c) == [c EXCEPT !.pc = "panicked", !.res = "Panic"]

\* encode: the match on self.0
EncMatch(t) ==
    /\ th[t].op = "encode" /\ th[t].pc = "call"
    /\ LET m == EncodeMatch(th[t].v)
       IN  Step(t, IF m.ok
                   THEN [th[t] EXCEPT !.pc = "put", !.tv = m.word, !.tn = m.nbytes]
                   ELSE Panicked(th[t]))

\* encode: dst.put_uint_be and the return
EncPut(t) ==
    /\ th[t].op = "encode" /\ th[t].pc = "put"
    /\ LET p == put_uint_be(th[t].dst, th[t].tv, th[t].tn)
       IN  Step(t, IF p.ok
                   THEN [th[t] EXCEPT !.pc = "done", !.dst = p.buf,
                                      !.res = "Ok", !.n = th[t].tn]
                   ELSE Panicked(th[t]))

\* decode: src.get_u8()
DecFirst(t) ==
    /\ th[t].op = "decode" /\ th[t].pc = "call"
    /\ Step(t, IF remaining(th[t].src) < 1
               THEN Panicked(th[t])
               ELSE [th[t] EXCEPT !.pc = "match",
                                  !.first = th[t].src.buf[th[t].src.pos + 1],
                                  !.src = advance(th[t].src, 1)])

\* decode: the match on first >> 6 with its src.get_uint_be
DecMatch(t) ==
    /\ th[t].op = "decode" /\ th[t].pc = "match"
    /\ LET m == DecodeMatch(th[t].first, th[t].src)
       IN  Step(t, IF m.ok
                   THEN [th[t] EXCEPT !.pc = "store", !.tv = m.v, !.tn = m.n,
                                      !.src = m.src]
                   ELSE Panicked([th[t] EXCEPT !.src = m.src]))

\* decode: self.0 = v and the return
DecStore(t) ==
    /\ th[t].op = "decode" /\ th[t].pc = "store"
    /\ Step(t, [th[t] EXCEPT !.pc = "done", !.v = Assign(th[t].v, th[t].tv),
                             !.res = "Ok", !.n = th[t].tn])

InitThreads ==
    /\ pc = "threads"
    /\ dst = <<>>
    /\ src = Cursor(<<>>, 0)
    /\ varint = Zero64
    /\ last = NoCall
    /\ sent = <<>>
    /\ recv = <<>>
    /\ orig = NoOrig
    /\ th \in [Threads -> { Thread(c) : c \in Calls }]

NextThreads ==
    \E t \in Threads :
        EncMatch(t) \/ EncPut(t) \/ DecFirst(t) \/ DecMatch(t) \/ DecStore(t)

SpecThreads == InitThreads /\ [][NextThreads]_vars

(***************************************************************************)
(* Vocabulary of the properties                                            *)
(***************************************************************************)
Widths == {1, 2, 4, 8}

\* tag/width table of the wire format
TagOf(w) == CASE w = 1 -> 0 [] w = 2 -> 1 [] w = 4 -> 2 [] w = 8 -> 3

RECURSIVE BitLen(_)
BitLen(b) == IF b = 0 THEN 0 ELSE 1 + BitLen(b \div 2)

\* number of significant bits of a u64
NumBits(v) ==
    IF v = Zero64 THEN 0
    ELSE LET i == CHOOSE k \in 1..8 : v[k] # 0 /\ \A j \in 1..(k - 1) : v[j] = 0
         IN  8 * (8 - i) + BitLen(v[i])

\* v <= 2^(8w-2) - 1
Fits(v, w) == NumBits(v) <= 8 * w - 2

\* v in [0, 2^62 - 1]
InRange(v) == Fits(v, 8)

MinWidth(v) == CHOOSE w \in Widths : Fits(v, w) /\ \A u \in Widths : Fits(v, u) => w <= u

\* the bytes the last encode call added to the sink
Written == SubSeq(dst, Len(last.dst0) + 1, Len(dst))

EncodeDone == last.op = "encode"
EncodeOk == last.op = "encode" /\ last.res = "Ok"
DecodeDone == last.op = "decode"

(***************************************************************************)
(* C1  Round trip: a value of [0, 2^62 - 1] encoded into an empty sink and *)
(* decoded from the bytes produced comes back unchanged, and decode        *)
(* reports as many bytes consumed as encode reported written.              *)
(***************************************************************************)
RoundTrip ==
    /\ (EncodeDone /\ InRange(last.arg)) => last.res = "Ok"
    /\ (DecodeDone /\ Len(sent) = 1 /\ last.src0.pos = 0 /\ Len(dst) = sent[1].n)
          => /\ last.res = "Ok"
             /\ varint = sent[1].v
             /\ last.n = sent[1].n

RoundTripWitness ==
    /\ DecodeDone /\ last.res = "Ok" /\ Len(sent) = 1
    /\ last.src0.pos = 0 /\ Len(dst) = 8
    /\ sent[1].v = MAX_INT_8 /\ varint = MAX_INT_8 /\ last.old = Zero64

(***************************************************************************)
(* C2  Minimality: the width encode chooses and returns for a value of     *)
(* [0, 2^62 - 1] is the smallest of 1, 2, 4, 8 whose payload holds it; 63  *)
(* takes 1 byte, 64 and 16383 take 2, 16384 and 1073741823 take 4,         *)
(* 1073741824 takes 8.                                                     *)
(***************************************************************************)
Minimality ==
    (EncodeDone /\ InRange(last.arg)) =>
        /\ last.res = "Ok"
        /\ last.n = MinWidth(last.arg)
        /\ Len(Written) = last.n
        /\ last.arg = FromInt(63) => last.n = 1
        /\ last.arg = FromInt(64) => last.n = 2
        /\ last.arg = FromInt(16383) => last.n = 2
        /\ last.arg = FromInt(16384) => last.n = 4
        /\ last.arg = FromInt(1073741823) => last.n = 4
        /\ last.arg = FromInt(1073741824) => last.n = 8

MinimalityWitness == EncodeOk /\ last.arg = FromInt(16384) /\ last.n = 4

(***************************************************************************)
(* C3  Overflow rejection: encode of a value of 2^62 or more returns the   *)
(* error ValueTooLarge to its caller, the process goes on, and nothing is  *)
(* written to the sink.                                                    *)
(***************************************************************************)
OverflowRejected ==
    (EncodeDone /\ ~InRange(last.arg)) =>
        /\ last.res = "ValueTooLarge"
        /\ pc # "aborted"
        /\ dst = last.dst0

(***************************************************************************)
(* C5  Wire format: the bytes encode adds are the w-byte big-endian form   *)
(* of the value with the width tag in the top two bits of the first byte;  *)
(* every other bit is the value's bit and the tag covers no set bit.       *)
(***************************************************************************)
WireFormat ==
    /\ (EncodeDone /\ InRange(last.arg)) => last.res = "Ok"
    /\ EncodeOk =>
        LET w == last.n
            be == SubSeq(last.arg, 9 - w, 8)
        IN  /\ w \in Widths
            /\ Len(Written) = w
            /\ \A i \in 1..(8 - w) : last.arg[i] = 0
            /\ be[1] < 64
            /\ Written[1] \div 64 = TagOf(w)
            /\ Written[1] % 64 = be[1]
            /\ \A i \in 2..w : Written[i] = be[i]
            /\ last.arg = FromInt(3) => Written = <<3>>
            /\ last.arg = FromInt(257) => Written = <<65, 1>>
            /\ last.arg = FromInt(16843009) => Written = <<129, 1, 1, 1>>
            /\ last.arg = [i \in 1..8 |-> 1] => Written = <<193, 1, 1, 1, 1, 1, 1, 1>>

WireFormatWitness ==
    EncodeOk /\ last.arg = FromInt(16843009) /\ Written = <<129, 1, 1, 1>>

(***************************************************************************)
(* C7  Frame effect: a successful encode appends exactly the returned      *)
(* number of bytes, which is 1, 2, 4 or 8, and leaves the bytes the sink   *)
(* already held unchanged.                                                 *)
(***************************************************************************)
FrameEffect ==
    EncodeOk =>
        /\ last.n \in Widths
        /\ Len(dst) = Len(last.dst0) + last.n
        /\ SubSeq(dst, 1, Len(last.dst0)) = last.dst0

FrameEffectWitness ==
    EncodeOk /\ last.dst0 = <<192, 1, 64>> /\ last.n = 8 /\ Len(dst) = 11

(***************************************************************************)
(* C9  Self-delimiting stream: values encoded one after another into one   *)
(* sink are returned by as many decode calls, in order, each call moving   *)
(* the cursor by the width encode returned for that value; after the last  *)
(* one the cursor is at the end of the buffer.                             *)
(***************************************************************************)
RECURSIVE SumN(_)
SumN(q) == IF q = <<>> THEN 0 ELSE Head(q).n + SumN(Tail(q))

Reading == pc # "encode" /\ src.buf = dst

SelfDelimiting ==
    Reading =>
        /\ Len(recv) <= Len(sent)
        /\ \A i \in 1..Len(recv) : recv[i] = sent[i]
        /\ src.pos = (Len(dst) - SumN(sent)) + SumN(recv)
        /\ (DecodeDone /\ last.res = "Ok") => src.pos = last.src0.pos + sent[Len(recv)].n
        /\ (DecodeDone /\ last.res # "Ok") => Len(recv) = Len(sent)
        /\ Len(recv) = Len(sent) => src.pos = Len(src.buf)

SelfDelimitingWitness ==
    /\ Reading /\ DecodeDone /\ last.res = "Ok"
    /\ Len(sent) = MaxStream /\ recv = sent
    /\ recv[1].n = 8 /\ recv[2].n = 1 /\ recv[3].n = 4
    /\ src.pos = Len(src.buf)

(***************************************************************************)
(* C4  Insufficient data: decode on an empty source, or on one holding     *)
(* fewer bytes than the width its first byte announces, returns the error  *)
(* InsufficientData and the process goes on.                               *)
(***************************************************************************)
WidthOfTag(t) == CHOOSE w \in Widths : TagOf(w) = t

\* the width announced by the first byte at a cursor holding at least one byte
Announced(s) == WidthOfTag(s.buf[s.pos + 1] \div 64)

TooShort(s) == remaining(s) = 0 \/ remaining(s) < Announced(s)

InsufficientDataReported ==
    (DecodeDone /\ TooShort(last.src0)) =>
        /\ last.res = "InsufficientData"
        /\ pc # "aborted"

(***************************************************************************)
(* C6  Decode is total over tags: on a source holding at least the width   *)
(* w its first byte announces, decode succeeds, consumes exactly w bytes   *)
(* and yields the big-endian number of those bytes with the top two bits   *)
(* cleared.                                                                *)
(***************************************************************************)
\* the first w bytes at a cursor
Taken(s, w) == SubSeq(s.buf, s.pos + 1, s.pos + w)

\* big-endian number of the bytes b with its top two bits cleared
Payload(b) ==
    LET w == Len(b)
    IN  [i \in 1..8 |-> IF i <= 8 - w THEN 0
                        ELSE IF i = 9 - w THEN b[1] % 64
                        ELSE b[i - (8 - w)]]

DecodeTotal ==
    (DecodeDone /\ ~TooShort(last.src0)) =>
        LET w == Announced(last.src0)
            b == Taken(last.src0, w)
        IN  /\ last.res = "Ok"
            /\ last.n = w
            /\ src = advance(last.src0, w)
            /\ varint = Payload(b)
            /\ b = <<3>> => varint = FromInt(3)
            /\ b = <<65, 1>> => varint = FromInt(257)
            /\ b = <<129, 1, 1, 0>> => varint = FromInt(16843008)
            /\ b = <<193, 1, 1, 1, 1, 1, 1, 1>> => varint = [i \in 1..8 |-> 1]

DecodeTotalWitness ==
    /\ DecodeDone /\ last.res = "Ok" /\ last.n = 4
    /\ Taken(last.src0, 4) = <<129, 1, 1, 0>>
    /\ remaining(last.src0) > 4

(***************************************************************************)
(* C10  Encodings that are longer than needed are accepted, and encoding   *)
(* the decoded value gives the shortest form: a decoded value lies in      *)
(* [0, 2^62 - 1], so encoding it succeeds, with a width of at most the     *)
(* width consumed; the bytes equal the bytes consumed exactly when those   *)
(* used the smallest width; decoding them gives the value again.           *)
(***************************************************************************)
Canonicalised ==
    /\ (DecodeDone /\ last.res = "Ok") => InRange(varint)
    /\ (orig.set /\ EncodeDone) =>
        /\ last.arg = orig.v
        /\ last.res = "Ok"
        /\ last.n <= orig.n
        /\ (dst = SubSeq(orig.buf, orig.pos + 1, orig.pos + orig.n))
              <=> (orig.n = MinWidth(orig.v))
        /\ (SubSeq(orig.buf, orig.pos + 1, orig.pos + orig.n) = <<64, 3>>)
              => (orig.v = FromInt(3) /\ orig.n = 2 /\ dst = <<3>>)
    /\ (orig.set /\ DecodeDone /\ last.src0.pos = 0) =>
        /\ last.res = "Ok"
        /\ varint = orig.v
        /\ last.n = MinWidth(orig.v)

CanonicalisedWitness ==
    /\ orig.set /\ DecodeDone /\ last.src0.pos = 0
    /\ orig.buf = <<64, 3>> /\ orig.n = 2
    /\ src.buf = <<3>> /\ varint = FromInt(3)

(***************************************************************************)
(* C8  Call independence: a call that runs interleaved with a call on      *)
(* other buffers ends with the result it has when run alone on its own     *)
(* inputs; what decode returns is fixed by the first w bytes at its        *)
(* cursor, whatever the VarInt held before and whatever bytes follow.      *)
(***************************************************************************)
Returned(t) == th[t].pc \in {"done", "panicked"}

SameAsAlone(t) ==
    LET c == th[t].in
    IN  IF c.op = "encode"
        THEN LET r == encode(c.v, c.dst)
             IN  /\ th[t].res = r.res /\ th[t].n = r.n /\ th[t].dst = r.dst
                 /\ th[t].v = c.v /\ th[t].src = c.src
        ELSE LET r == decode(c.src, c.v)
             IN  /\ th[t].res = r.res /\ th[t].n = r.n /\ th[t].v = r.v
                 /\ th[t].src = r.src /\ th[t].dst = c.dst

OwnBytesOnly(t) ==
    (th[t].op = "decode" /\ th[t].res = "Ok") =>
        LET r == decode(Cursor(Taken(th[t].in.src, th[t].n), 0), Zero64)
        IN  r.res = "Ok" /\ r.n = th[t].n /\ r.v = th[t].v

CallIndependence ==
    pc = "threads" => \A t \in Threads : Returned(t) => SameAsAlone(t) /\ OwnBytesOnly(t)

CallIndependenceWitness ==
    /\ pc = "threads"
    /\ \A t \in Threads : th[t].pc = "done" /\ th[t].mixed
    /\ th[1].op = "decode" /\ th[1].in.v = Ones64 /\ th[1].in.src.pos = 1
    /\ th[1].n = 4 /\ th[1].v = FromInt(16843008)
    /\ th[2].op = "encode" /\ th[2].in.dst = <<170>> /\ th[2].dst = <<170, 65, 1>>

====
